---- MODULE Spec2Model ----
(***************************************************************************)
(* Model of nonebot/adapters/discord/message.py: the segment taxonomy, the *)
(* tokenizer (Message._construct), the message container operations, the   *)
(* inbound adapter (Message.from_guild_message) and the outbound           *)
(* serializer (parse_message).                                             *)
(*                                                                         *)
(* A Python str is a sequence of one-character strings, so that the        *)
(* tokenizer's regular expression, str.split, str.isdigit, int() and the   *)
(* f-string renderings are computed character by character.  None is the   *)
(* empty sequence and a present optional value v is <<v>>.                 *)
(***************************************************************************)
EXTENDS Integers, Sequences, FiniteSets, TLC

VARIABLES
    msg,      \* the Message an operation is called on (a sequence of segments)
    input,    \* the str handed to the tokenizer
    operand,  \* the operand of the last + (a str, a segment or segments)
    event,    \* the MessageGet handed to from_guild_message
    op,       \* the operation that ran last ("init" before any)
    ret,      \* the segments the last operation produced
    raised,   \* TRUE when the last operation ended by raising
    content,  \* the str extract_content returned last
    out,      \* the mapping parse_message returned last
    prevOut,  \* the mapping parse_message returned the time before
    parses    \* parse_message calls in a row on msg, none other between

vars ==
    <<msg, input, operand, event, op, ret, raised, content, out, prevOut, parses>>

----
(* Bounds of the model. *)

\* segments in a Message of the container specification
MaxSegs == 3
\* chunks (literal runs or bracketed markup forms) in a tokenizer input
MaxChunks == 2
\* segments in a Message of the round-trip specification
MaxTextual == 3
\* attachments, embeds and components of a received event, each
MaxEventItems == 2
\* parse_message calls in a row on one Message
MaxParses == 2

----
(* Python values. *)

None == <<>>
Some(v) == <<v>>

Min(S) == CHOOSE a \in S : \A b \in S : a <= b

DigitChars == <<"0", "1", "2", "3", "4", "5", "6", "7", "8", "9">>
DigitSet == {DigitChars[i] : i \in 1..10}
DigitVal(c) == (CHOOSE i \in 1..10 : DigitChars[i] = c) - 1

\* str.isdigit(): non-empty and every character a digit
isdigit(s) == Len(s) > 0 /\ \A i \in 1..Len(s) : s[i] \in DigitSet

\* int(s) of a digit string
RECURSIVE int(_)
int(s) ==
    IF Len(s) = 0 THEN 0
    ELSE 10 * int(SubSeq(s, 1, Len(s) - 1)) + DigitVal(s[Len(s)])

\* str(n) of a non-negative int, as an f-string formats it
RECURSIVE str_int(_)
str_int(n) ==
    IF n < 10 THEN <<DigitChars[n + 1]>>
    ELSE str_int(n \div 10) \o <<DigitChars[(n % 10) + 1]>>

\* s.split(":")
RECURSIVE split(_)
split(s) ==
    LET cols == {i \in 1..Len(s) : s[i] = ":"}
    IN  IF cols = {} THEN <<s>>
        ELSE <<SubSeq(s, 1, Min(cols) - 1)>>
                 \o split(SubSeq(s, Min(cols) + 1, Len(s)))

\* "".join(parts)
RECURSIVE join(_)
join(parts) ==
    IF parts = <<>> THEN <<>> ELSE Head(parts) \o join(Tail(parts))

HasPrefixAt(s, i, p) ==
    /\ i + Len(p) - 1 <= Len(s)
    /\ \A k \in 1..Len(p) : s[i + k - 1] = p[k]

----
(* External collaborators of message.py (.api, .utils). *)

\* Snowflake(value): a numeric id.  Built from a str it is the number the
\* decimal digits spell; any other str (the strings here hold no sign, blank
\* or underscore) is rejected with ValueError, reported as ok = FALSE.
Snowflake(value) ==
    IF isdigit(value) THEN [ok |-> TRUE, id |-> int(value)]
    ELSE [ok |-> FALSE, id |-> 0]

\* The values of the TimeStampStyle enumeration.
TimeStampStyles == {"t", "T", "d", "D", "f", "F", "R"}

\* TimeStampStyle(value): the member with that value; ValueError when none has.
TimeStampStyle(value) ==
    IF Len(value) = 1 /\ value[1] \in TimeStampStyles
    THEN [ok |-> TRUE, style |-> value[1]]
    ELSE [ok |-> FALSE, style |-> ""]

\* unescape(s): reverses the escaping of the markup sentinel characters.  The
\* escaped form of "<" is taken to be the entity &lt; and is the one form
\* that occurs in the strings here.
EscLt == <<"&", "l", "t", ";">>
RECURSIVE unescape(_)
unescape(s) ==
    IF s = <<>> THEN <<>>
    ELSE IF HasPrefixAt(s, 1, EscLt)
         THEN <<"<">> \o unescape(SubSeq(s, Len(EscLt) + 1, Len(s)))
         ELSE <<Head(s)>> \o unescape(Tail(s))

----
(* MessageSegment factories. *)

text(c) == [type |-> "text", data |-> [text |-> c]]
mention_user(user_id) ==
    [type |-> "mention_user", data |-> [user_id |-> user_id]]
mention_role(role_id) ==
    [type |-> "mention_role", data |-> [role_id |-> role_id]]
mention_channel(channel_id) ==
    [type |-> "mention_channel", data |-> [channel_id |-> channel_id]]
mention_everyone == [type |-> "mention_everyone"]
custom_emoji(name, emoji_id, animated) ==
    [type |-> "custom_emoji",
     data |-> [name |-> name, id |-> emoji_id, animated |-> animated]]
timestamp(ts, style) ==
    [type |-> "timestamp", data |-> [timestamp |-> ts, style |-> style]]
sticker(sticker_id) == [type |-> "sticker", data |-> [id |-> sticker_id]]
embed(e) == [type |-> "embed", data |-> [embed |-> e]]
reference(r) == [type |-> "reference", data |-> [reference |-> r]]

\* AttachmentSend(filename, description) and File(filename, content)
AttachmentSend(filename, description) ==
    [filename |-> filename, description |-> description]
File(filename, bytes) == [filename |-> filename, content |-> bytes]

\* MessageSegment.attachment(file, description, content) for a str filename or
\* an AttachmentSend: the File is made only when content is not None.
attachment(filename, description, bytes) ==
    IF bytes = None
    THEN [type |-> "attachment",
          data |-> [attachment |-> AttachmentSend(filename, description),
                    file |-> None]]
    ELSE [type |-> "attachment",
          data |-> [attachment |-> AttachmentSend(filename, description),
                    file |-> Some(File(filename, bytes[1]))]]

\* MessageSegment.component: a Button or SelectMenu is wrapped in an ActionRow.
component(c) ==
    IF c.type \in {"Button", "SelectMenu"}
    THEN [type |-> "component",
          data |-> [component |-> [type |-> "ActionRow", components |-> <<c>>]]]
    ELSE [type |-> "component", data |-> [component |-> c]]

----
(* __str__ of the segment classes that extract_content renders. *)

Segment_str(seg) ==
    CASE seg.type = "text" -> seg.data.text
      [] seg.type = "custom_emoji" ->
            IF seg.data.animated = Some(TRUE)
            THEN <<"<", "a", ":">> \o seg.data.name \o <<":">>
                     \o seg.data.id \o <<">">>
            ELSE <<"<", ":">> \o seg.data.name \o <<":">>
                     \o seg.data.id \o <<">">>
      [] seg.type = "mention_user" ->
            <<"<", "@">> \o str_int(seg.data.user_id) \o <<">">>
      [] seg.type = "mention_channel" ->
            <<"<", "#">> \o str_int(seg.data.channel_id) \o <<">">>
      [] seg.type = "mention_role" ->
            <<"<", "@", "&">> \o str_int(seg.data.role_id) \o <<">">>
      [] seg.type = "mention_everyone" ->
            <<"@", "e", "v", "e", "r", "y", "o", "n", "e">>
      [] seg.type = "timestamp" ->
            <<"<", "t", ":">> \o str_int(seg.data.timestamp)
                \o (IF seg.data.style # None
                    THEN <<":", seg.data.style[1]>> ELSE <<>>)
                \o <<">">>

----
(* Message._construct: the tokenizer. *)

\* The alternatives of the pattern's group "type", in the pattern's order.
TypeAlts ==
    << <<"@", "!">>, <<"@", "&">>, <<"@">>, <<"#">>, <<"/">>, <<":">>,
       <<"a", ":">>, <<"t", ":">> >>

\* Where a param [^<]+? starting at p can end: the index of a ">" after at
\* least one character, none of the characters before it a "<".
ParamEnds(s, p) ==
    {j \in (p + 1)..Len(s) :
        s[j] = ">" /\ \A q \in p..(j - 1) : s[q] # "<"}

\* The match of the pattern that starts at i, if there is one: the first
\* alternative of "type" that lets the whole pattern match, and with it the
\* shortest param.
MatchAt(s, i) ==
    LET alts == {k \in 1..Len(TypeAlts) :
                    /\ HasPrefixAt(s, i + 1, TypeAlts[k])
                    /\ ParamEnds(s, i + 1 + Len(TypeAlts[k])) # {}}
    IN  IF s[i] # "<" \/ alts = {} THEN [found |-> FALSE]
        ELSE LET k == Min(alts)
                 p == i + 1 + Len(TypeAlts[k])
                 e == Min(ParamEnds(s, p))
             IN  [found |-> TRUE, start |-> i, end |-> e,
                  type |-> TypeAlts[k], param |-> SubSeq(s, p, e - 1),
                  group |-> SubSeq(s, i, e)]

\* re.finditer's next match: the leftmost one starting at or after from.
NextMatch(s, from) ==
    LET starts == {i \in from..Len(s) : MatchAt(s, i).found}
    IN  IF starts = {} THEN [found |-> FALSE] ELSE MatchAt(s, Min(starts))

\* The branch of the loop body taken for one match: what it yields, or that
\* it raises.
Yield(segs) == [raised |-> FALSE, segs |-> segs]
Raise == [raised |-> TRUE, segs |-> <<>>]

TimestampBranch(m) ==
    LET cut == split(m.param)
    IN  IF Len(cut) = 2 /\ isdigit(cut[1])
        THEN IF TimeStampStyle(cut[2]).ok
             THEN Yield(<<timestamp(int(cut[1]),
                                    Some(TimeStampStyle(cut[2]).style))>>)
             ELSE Raise
        ELSE IF isdigit(m.group)
             THEN Yield(<<timestamp(int(m.group), None)>>)
             ELSE Yield(<<text(unescape(m.group))>>)

\* Mutant of EmojiBranch: the animated flag is not taken from the type.
EmojiBranch_never_animated(m) ==
    LET cut == split(m.param)
    IN  IF Len(cut) = 2
        THEN Yield(<<custom_emoji(cut[1], cut[2], Some(FALSE))>>)
        ELSE Yield(<<text(unescape(m.group))>>)

EmojiBranch(m) ==
    LET cut == split(m.param)
    IN  IF Len(cut) = 2
        THEN Yield(<<custom_emoji(cut[1], cut[2],
                                  Some(m.type = <<"a", ":">>))>>)
        ELSE Yield(<<text(unescape(m.group))>>)

MentionBranch(m) ==
    IF ~Snowflake(m.param).ok THEN Raise
    ELSE IF m.type \in {<<"@", "!">>, <<"@">>}
         THEN Yield(<<mention_user(Snowflake(m.param).id)>>)
    ELSE IF m.type = <<"@", "&">>
         THEN Yield(<<mention_role(Snowflake(m.param).id)>>)
    ELSE Yield(<<mention_channel(Snowflake(m.param).id)>>)

MatchBranch(m) ==
    IF m.type \in {<<"@", "!">>, <<"@">>, <<"@", "&">>, <<"#">>}
    THEN MentionBranch(m)
    ELSE IF m.type = <<"/">> THEN Yield(<<>>)
    ELSE IF m.type \in {<<":">>, <<"a", ":">>} THEN EmojiBranch(m)
    ELSE TimestampBranch(m)

\* A literal run msg[b:e]: one text segment, or nothing when it is empty.
TextRun(s, b, e) ==
    IF SubSeq(s, b, e) # <<>> THEN <<text(unescape(SubSeq(s, b, e)))>>
    ELSE <<>>

\* The generator from text_begin on: the segments it yields and whether it
\* ends by raising (then segs are those yielded before the exception).
RECURSIVE ConstructFrom(_, _)
ConstructFrom(s, text_begin) ==
    LET m == NextMatch(s, text_begin)
    IN  IF ~m.found THEN Yield(TextRun(s, text_begin, Len(s)))
        ELSE LET pre == TextRun(s, text_begin, m.start - 1)
                 body == MatchBranch(m)
             IN  IF body.raised
                 THEN [raised |-> TRUE, segs |-> pre]
                 ELSE LET rest == ConstructFrom(s, m.end + 1)
                      IN  [raised |-> rest.raised,
                           segs |-> pre \o body.segs \o rest.segs]

_construct(s) == ConstructFrom(s, 1)

----
(* The Message container. *)

\* Base-class list operations on a Message.
append(self, seg) == self \o <<seg>>
extend(self, segs) == self \o segs

\* message[kind]: the segments of that kind, in order.
select(self, kind) == SelectSeq(self, LAMBDA seg : seg.type = kind)

\* An operand of + is a str, one MessageSegment or a sequence of segments.
StrArg(s) == [str |-> s]
SegArg(seg) == [seg |-> seg]
SegsArg(segs) == [segs |-> segs]
IsStr(other) == DOMAIN other = {"str"}

\* Message(other): a str is tokenized, a segment or a sequence is taken as is.
\* The result is the segments and whether tokenizing raised.
Message(other) ==
    IF IsStr(other) THEN _construct(other.str)
    ELSE IF DOMAIN other = {"seg"} THEN Yield(<<other.seg>>)
    ELSE Yield(other.segs)

\* The base class's __add__: a copy of self with the operand added in place
\* (result += other), which tokenizes a str operand.
BaseAdd(self, other) ==
    [raised |-> Message(other).raised,
     segs |-> extend(self, Message(other).segs)]

\* The base class's __radd__: Message(other) + self.
BaseRAdd(self, other) ==
    [raised |-> Message(other).raised,
     segs |-> extend(Message(other).segs, self)]

\* Mutant of __add__: the str operand is handed to the base class as it is,
\* which tokenizes it.
add_unwrapped(self, other) == BaseAdd(self, other)

\* Message.__add__: a str operand is wrapped whole in one text segment.
__add__(self, other) ==
    BaseAdd(self, IF IsStr(other) THEN SegArg(text(other.str)) ELSE other)

\* Message.__radd__
__radd__(self, other) ==
    BaseRAdd(self, IF IsStr(other) THEN SegArg(text(other.str)) ELSE other)

\* Mutant of ContentTypes: mention_everyone is left out of the tuple.
ContentTypes_without_everyone ==
    {"text", "custom_emoji", "mention_user", "mention_role",
     "mention_channel", "timestamp"}

\* The kinds extract_content renders.
ContentTypes ==
    {"text", "custom_emoji", "mention_user", "mention_role",
     "mention_everyone", "mention_channel", "timestamp"}

\* Message.extract_content
extract_content(self) ==
    LET kept == SelectSeq(self, LAMBDA seg : seg.type \in ContentTypes)
    IN  join([i \in 1..Len(kept) |-> Segment_str(kept[i])])

\* The description kept for an inbound attachment: the event's when it is a
\* str, None otherwise.
DescriptionOf(a) ==
    IF DOMAIN a.description = {"str"} THEN Some(a.description.str) ELSE None

\* Message.from_guild_message: the segments of the Message built, or that the
\* call raised (Message(message.content) raises when the tokenizer does).
from_guild_message(message) ==
    LET m1 == IF message.mention_everyone
              THEN append(<<>>, mention_everyone) ELSE <<>>
        tokens == IF message.content # <<>>
                  THEN Message(StrArg(message.content)) ELSE Yield(<<>>)
        m2 == extend(m1, tokens.segs)
        m3 == IF message.attachments # <<>>
              THEN extend(m2,
                       [i \in 1..Len(message.attachments) |->
                           attachment(message.attachments[i].filename,
                                      DescriptionOf(message.attachments[i]),
                                      None)])
              ELSE m2
        m4 == IF message.embeds # <<>>
              THEN extend(m3, [i \in 1..Len(message.embeds) |->
                                  embed(message.embeds[i])])
              ELSE m3
        m5 == IF message.components # <<>>
              THEN extend(m4, [i \in 1..Len(message.components) |->
                                  component(message.components[i])])
              ELSE m4
    IN  IF tokens.raised THEN Raise ELSE Yield(m5)

----
(* parse_message, for a Message argument. *)

OutKeys ==
    {"content", "embeds", "message_reference", "components", "sticker_ids",
     "files", "attachments"}

\* The list comprehensions over the selected segments.
EmbedsOf(segs) == [i \in 1..Len(segs) |-> segs[i].data.embed]
ComponentsOf(segs) == [i \in 1..Len(segs) |-> segs[i].data.component]
StickerIdsOf(segs) == [i \in 1..Len(segs) |-> segs[i].data.id]
AttachmentsOf(segs) == [i \in 1..Len(segs) |-> segs[i].data.attachment]

\* Mutant of ReferenceOf: reference[0] in place of reference[-1].
ReferenceOf_first(self) ==
    LET refs == select(self, "reference")
    IN  IF refs # <<>> THEN Some(refs[1].data.reference) ELSE None

\* reference := message["reference"] or None, then the last one's payload
ReferenceOf(self) ==
    LET refs == select(self, "reference")
    IN  IF refs # <<>> THEN Some(refs[Len(refs)].data.reference) ELSE None

\* Mutant of FilesOf: each File is put in front of the ones before it.
FilesOf_reversed(atts) ==
    LET fs == SelectSeq(atts, LAMBDA seg : seg.data.file # None)
    IN  [i \in 1..Len(fs) |-> fs[Len(fs) + 1 - i].data.file[1]]

\* files: the File of every attachment segment that has one
FilesOf(atts) ==
    LET fs == SelectSeq(atts, LAMBDA seg : seg.data.file # None)
    IN  [i \in 1..Len(fs) |-> fs[i].data.file[1]]

\* The values of the dict literal, None for a key that the final
\* comprehension drops.
ParseFields(self) ==
    LET embeds == select(self, "embed")
        components == select(self, "component")
        stickers == select(self, "sticker")
        atts == select(self, "attachment")
    IN  [content |->
             IF extract_content(self) # <<>>
             THEN Some(extract_content(self)) ELSE None,
         embeds |->
             IF embeds # <<>> THEN Some(EmbedsOf(embeds)) ELSE None,
         message_reference |-> ReferenceOf(self),
         components |->
             IF components # <<>> THEN Some(ComponentsOf(components))
             ELSE None,
         sticker_ids |->
             IF stickers # <<>> THEN Some(StickerIdsOf(stickers))
             ELSE None,
         files |-> IF atts # <<>> THEN Some(FilesOf(atts)) ELSE None,
         attachments |->
             IF atts # <<>> THEN Some(AttachmentsOf(atts)) ELSE None]

\* {k: v for k, v in {...}.items() if v is not None}
parse_message(self) ==
    LET fields == ParseFields(self)
    IN  [k \in {key \in OutKeys : fields[key] # None} |-> fields[k][1]]

----
(* The inputs of the tokenizer specification: strings of up to MaxChunks    *)
(* chunks, a chunk being a literal run or a bracketed form "<" type param   *)
(* ">" over every type of the pattern and a few params.                     *)

Params ==
    { <<"1", "2">>, <<"x">>, <<"x", ":", "7">>, <<"1", "2", ":", "R">>,
      <<"1", "2", ":", "x">> }

Literals == { <<"x">>, <<"<">>, <<">">>, EscLt }

Markup(type, param) == <<"<">> \o type \o param \o <<">">>

\* A slash-command reference with text behind it, one chunk, so that two chunks
\* reach a reference with text on both sides or behind another match.
SlashThenText == Markup(<<"/">>, <<"x">>) \o <<"x">>

Chunks ==
    Literals \cup {SlashThenText}
        \cup {Markup(TypeAlts[k], p) : k \in 1..Len(TypeAlts), p \in Params}

RECURSIVE ChunkStrings(_)
ChunkStrings(n) ==
    IF n = 0 THEN {<<>>}
    ELSE LET shorter == ChunkStrings(n - 1)
         IN  shorter \cup {s \o c : s \in shorter, c \in Chunks}

Inputs == ChunkStrings(MaxChunks)

----
(* Values the variables hold before the operation that sets them has run. *)

NoEvent ==
    [mention_everyone |-> FALSE, content |-> <<>>, attachments |-> <<>>,
     embeds |-> <<>>, components |-> <<>>]
NoOut == [k \in {} |-> None]
NoOperand == [str |-> <<>>]

\* What an operation leaves of the results of the operations before it.
NoResults ==
    /\ ret' = <<>> /\ raised' = FALSE /\ content' = <<>>
    /\ out' = NoOut /\ prevOut' = NoOut /\ parses' = 0

----
(* The tokenizer specification: Message(input) for every input. *)

TokInit ==
    /\ input \in Inputs
    /\ msg = <<>> /\ operand = NoOperand /\ event = NoEvent /\ op = "init"
    /\ ret = <<>> /\ raised = FALSE /\ content = <<>>
    /\ out = NoOut /\ prevOut = NoOut /\ parses = 0

\* _construct(input), run to the end of the generator
Construct ==
    /\ op' = "_construct"
    /\ ret' = _construct(input).segs
    /\ raised' = _construct(input).raised
    /\ UNCHANGED <<msg, input, operand, event, content, out, prevOut, parses>>

TokNext == Construct

SpecTok == TokInit /\ [][TokNext]_vars

----
(* The container specification: a Message grown by append and extend, and  *)
(* +, extract_content and parse_message called on it.                      *)

Hi == <<"h", "i", " ">>
UserMarkup == <<"<", "@", "1", ">">>

E1 == [type |-> "rich", title |-> "e1"]
Button1 == [type |-> "Button", custom_id |-> "b1"]
R1 == [message_id |-> 100]
R2 == [message_id |-> 200]

SegUniverse ==
    { text(Hi), mention_user(42), mention_everyone,
      sticker(9), embed(E1), component(Button1),
      attachment("a.png", None, Some("bytes-a")),
      attachment("b.png", Some("b"), None),
      attachment("c.png", None, Some("bytes-c")),
      reference(R1), reference(R2) }

ExtendArgs == { <<text(Hi), mention_user(42)>> }

AddOperands ==
    { StrArg(UserMarkup), StrArg(<<>>), SegArg(mention_everyone),
      SegsArg(<<text(Hi), embed(E1)>>) }

Init ==
    /\ msg = <<>>
    /\ input = <<>> /\ operand = NoOperand /\ event = NoEvent /\ op = "init"
    /\ ret = <<>> /\ raised = FALSE /\ content = <<>>
    /\ out = NoOut /\ prevOut = NoOut /\ parses = 0

\* msg.append(seg)
AppendSeg(seg) ==
    /\ Len(msg) < MaxSegs
    /\ msg' = append(msg, seg)
    /\ op' = "append"
    /\ NoResults
    /\ operand' = NoOperand
    /\ UNCHANGED <<input, event>>

\* msg.extend(segs)
ExtendSegs(segs) ==
    /\ Len(msg) + Len(segs) <= MaxSegs
    /\ msg' = extend(msg, segs)
    /\ op' = "extend"
    /\ NoResults
    /\ operand' = NoOperand
    /\ UNCHANGED <<input, event>>

\* msg + o
Add(o) ==
    /\ op' = "__add__"
    /\ operand' = o
    /\ ret' = __add__(msg, o).segs
    /\ raised' = __add__(msg, o).raised
    /\ content' = <<>> /\ out' = NoOut /\ prevOut' = NoOut /\ parses' = 0
    /\ UNCHANGED <<msg, input, event>>

\* o + msg
RAdd(o) ==
    /\ op' = "__radd__"
    /\ operand' = o
    /\ ret' = __radd__(msg, o).segs
    /\ raised' = __radd__(msg, o).raised
    /\ content' = <<>> /\ out' = NoOut /\ prevOut' = NoOut /\ parses' = 0
    /\ UNCHANGED <<msg, input, event>>

\* msg.extract_content()
ExtractContent ==
    /\ op' = "extract_content"
    /\ content' = extract_content(msg)
    /\ ret' = <<>> /\ raised' = FALSE
    /\ out' = NoOut /\ prevOut' = NoOut /\ parses' = 0
    /\ operand' = NoOperand
    /\ UNCHANGED <<msg, input, event>>

\* Mutant of ParseMessage: the File of each attachment segment is taken out
\* of the segment as it is handed over.
WithoutFile(seg) ==
    IF seg.type = "attachment"
    THEN [seg EXCEPT !.data = [@ EXCEPT !.file = None]]
    ELSE seg
ParseMessage_consuming_files ==
    /\ parses < MaxParses
    /\ op' = "parse_message"
    /\ out' = parse_message(msg)
    /\ msg' = [i \in 1..Len(msg) |-> WithoutFile(msg[i])]
    /\ prevOut' = out
    /\ parses' = parses + 1
    /\ ret' = <<>> /\ raised' = FALSE /\ content' = <<>>
    /\ operand' = NoOperand
    /\ UNCHANGED <<input, event>>

\* parse_message(msg): the mapping is built from reads of msg alone
ParseMessage ==
    /\ parses < MaxParses
    /\ op' = "parse_message"
    /\ out' = parse_message(msg)
    /\ prevOut' = out
    /\ parses' = parses + 1
    /\ ret' = <<>> /\ raised' = FALSE /\ content' = <<>>
    /\ operand' = NoOperand
    /\ UNCHANGED <<msg, input, event>>

Next ==
    \/ \E seg \in SegUniverse : AppendSeg(seg)
    \/ \E segs \in ExtendArgs : ExtendSegs(segs)
    \/ \E o \in AddOperands : Add(o)
    \/ \E o \in AddOperands : RAdd(o)
    \/ ExtractContent
    \/ ParseMessage

Spec == Init /\ [][Next]_vars

----
(* The inbound specification: from_guild_message(event) for every event. *)

E2 == [type |-> "image", title |-> "e2"]
TextInput1 == [type |-> "TextInput", custom_id |-> "t1"]

EventContents ==
    { <<>>, Hi, UserMarkup \o Hi, <<"<", "@", "x", ">">>,
      <<"@", "e", "v", "e", "r", "y", "o", "n", "e">> }
EventAttachments ==
    { [filename |-> "a.png", description |-> [str |-> "about a"]],
      [filename |-> "b.png", description |-> [unset |-> TRUE]] }
EventEmbeds == {E1, E2}
EventComponents == {Button1, TextInput1}

RECURSIVE SeqsUpTo(_, _)
SeqsUpTo(S, n) ==
    IF n = 0 THEN {<<>>}
    ELSE LET shorter == SeqsUpTo(S, n - 1)
         IN  shorter \cup {Append(q, x) : q \in shorter, x \in S}

Events ==
    [mention_everyone : BOOLEAN,
     content : EventContents,
     attachments : SeqsUpTo(EventAttachments, MaxEventItems),
     embeds : SeqsUpTo(EventEmbeds, MaxEventItems),
     components : SeqsUpTo(EventComponents, MaxEventItems)]

GuildInit ==
    /\ event \in Events
    /\ msg = <<>> /\ input = <<>> /\ operand = NoOperand /\ op = "init"
    /\ ret = <<>> /\ raised = FALSE /\ content = <<>>
    /\ out = NoOut /\ prevOut = NoOut /\ parses = 0

\* Message.from_guild_message(event)
FromGuildMessage ==
    /\ op' = "from_guild_message"
    /\ ret' = from_guild_message(event).segs
    /\ raised' = from_guild_message(event).raised
    /\ UNCHANGED <<msg, input, operand, event, content, out, prevOut, parses>>

GuildNext == FromGuildMessage

SpecGuild == GuildInit /\ [][GuildNext]_vars

----
(* The round-trip specification: the content of a Message of textual       *)
(* segments is extracted and tokenized again.                              *)

N7 == <<"n">>
Id7 == <<"7">>

TextualUniverse ==
    { text(Hi), text(UserMarkup), text(<<>>), text(EscLt),
      mention_user(42), mention_role(7), mention_channel(105),
      mention_everyone,
      custom_emoji(N7, Id7, None), custom_emoji(N7, Id7, Some(FALSE)),
      custom_emoji(N7, Id7, Some(TRUE)),
      timestamp(5, None), timestamp(5, Some("R")) }

RoundTripInit ==
    /\ msg \in SeqsUpTo(TextualUniverse, MaxTextual)
    /\ input = <<>> /\ operand = NoOperand /\ event = NoEvent /\ op = "init"
    /\ ret = <<>> /\ raised = FALSE /\ content = <<>>
    /\ out = NoOut /\ prevOut = NoOut /\ parses = 0

\* Message(content) for the content extracted last
Retokenize ==
    /\ op = "extract_content"
    /\ input' = content
    /\ op' = "_construct"
    /\ ret' = _construct(content).segs
    /\ raised' = _construct(content).raised
    /\ UNCHANGED <<msg, operand, event, content, out, prevOut, parses>>

RoundTripNext ==
    \/ ExtractContent
    \/ Retokenize

SpecRoundTrip == RoundTripInit /\ [][RoundTripNext]_vars

----
(* Claims about the tokenizer, checked under SpecTok. *)

MentionTypes == {<<"@", "!">>, <<"@">>, <<"@", "&">>, <<"#">>}

\* The whole of s is one match of the pattern.
IsOneMatch(s) ==
    /\ s # <<>>
    /\ MatchAt(s, 1).found
    /\ MatchAt(s, 1).end = Len(s)

\* A match whose param is malformed for its type: a non-numeric id in a
\* mention, an unknown timestamp style, a wrong number of colon parts.
Malformed(m) ==
    \/ m.type \in MentionTypes /\ ~isdigit(m.param)
    \/ m.type \in {<<":">>, <<"a", ":">>} /\ Len(split(m.param)) # 2
    \/ /\ m.type = <<"t", ":">>
       /\ \/ Len(split(m.param)) > 2
          \/ ~isdigit(split(m.param)[1])
          \/ Len(split(m.param)) = 2 /\ ~TimeStampStyle(split(m.param)[2]).ok

\* C2: the tokenizer never raises, and a match whose param is malformed is
\* emitted as a literal text segment holding the matched text.
C2_TokenizerNeverRaises ==
    op = "_construct" =>
        /\ ~raised
        /\ (IsOneMatch(input) /\ Malformed(MatchAt(input, 1))
                => ret = <<text(input)>>)

\* C3: "<t:S>" with S a digit string tokenizes to one timestamp segment
\* (timestamp S, no style), "<t:S:STYLE>" to one timestamp segment with that
\* style, and a match whose first colon part is not numeric to one literal
\* text segment.
C3_TimestampTokenization ==
    (op = "_construct" /\ IsOneMatch(input)
        /\ MatchAt(input, 1).type = <<"t", ":">>) =>
        LET cut == split(MatchAt(input, 1).param)
        IN  /\ (Len(cut) = 1 /\ isdigit(cut[1])
                    => ~raised /\ ret = <<timestamp(int(cut[1]), None)>>)
            /\ (Len(cut) = 2 /\ isdigit(cut[1]) /\ TimeStampStyle(cut[2]).ok
                    => ~raised
                       /\ ret = <<timestamp(int(cut[1]), Some(cut[2][1]))>>)
            /\ (~isdigit(cut[1]) => ~raised /\ ret = <<text(input)>>)

----
(* Claims about the container and the serializer, checked under Spec. *)

Max(S) == CHOOSE a \in S : \A b \in S : a >= b

\* The positions in m of the segments of one kind, and the rank of a
\* position among a set of positions.
Positions(m, kind) == {i \in 1..Len(m) : m[i].type = kind}
Rank(S, i) == Cardinality({j \in S : j <= i})

\* A key's list in the mapping, empty when the key is absent.
OutList(key) == IF key \in DOMAIN out THEN out[key] ELSE <<>>

HasFile(seg) == seg.type = "attachment" /\ seg.data.file # None

\* C4: the mapping parse_message returns has no empty value, and the key
\* files is present exactly when an attachment segment carries file bytes.
C4_OnlyNonEmptyValues ==
    op = "parse_message" =>
        /\ \A k \in DOMAIN out \ {"message_reference"} : out[k] # <<>>
        /\ ("files" \in DOMAIN out
                <=> \E i \in 1..Len(msg) : HasFile(msg[i]))

\* C5: message_reference is the payload of the reference segment at the
\* greatest position of the Message, and absent when there is none.
C5_LastReferenceWins ==
    op = "parse_message" =>
        LET refs == Positions(msg, "reference")
        IN  IF refs = {} THEN "message_reference" \notin DOMAIN out
            ELSE /\ "message_reference" \in DOMAIN out
                 /\ out["message_reference"] = msg[Max(refs)].data.reference

\* Witness of C5: a Message with two different references was serialized.
C5_TwoReferencesSerialized ==
    /\ op = "parse_message"
    /\ Cardinality(Positions(msg, "reference")) >= 2
    /\ msg[Min(Positions(msg, "reference"))]
           # msg[Max(Positions(msg, "reference"))]
    /\ out["message_reference"]
           = msg[Max(Positions(msg, "reference"))].data.reference

\* C6: attachments holds the metadata of every attachment segment in message
\* order, and files the File of exactly those that carry one, in the same
\* relative order.
C6_AttachmentsAndFilesInOrder ==
    op = "parse_message" =>
        LET atts == Positions(msg, "attachment")
            withFile == {i \in atts : msg[i].data.file # None}
        IN  /\ Len(OutList("attachments")) = Cardinality(atts)
            /\ \A i \in atts :
                   OutList("attachments")[Rank(atts, i)]
                       = msg[i].data.attachment
            /\ Len(OutList("files")) = Cardinality(withFile)
            /\ \A i \in withFile :
                   OutList("files")[Rank(withFile, i)] = msg[i].data.file[1]

\* Witness of C6: three attachment segments, the first and the third with
\* file bytes, were serialized to three metadata entries and two files.
C6_ThreeAttachmentsSerialized ==
    /\ op = "parse_message"
    /\ msg = << attachment("a.png", None, Some("bytes-a")),
                attachment("b.png", Some("b"), None),
                attachment("c.png", None, Some("bytes-c")) >>
    /\ Len(out["attachments"]) = 3
    /\ out["files"] = <<File("a.png", "bytes-a"), File("c.png", "bytes-c")>>

\* C8: m + s is m followed by the one text segment holding s, s + m is that
\* segment followed by m, whatever markup s holds, and m is left as it was.
C8_StringConcatenation ==
    [][ /\ (op' = "__add__" /\ IsStr(operand'))
            => /\ msg' = msg
               /\ ~raised'
               /\ ret' = msg \o <<text(operand'.str)>>
        /\ (op' = "__radd__" /\ IsStr(operand'))
            => /\ msg' = msg
               /\ ~raised'
               /\ ret' = <<text(operand'.str)>> \o msg ]_vars

\* Witness of C8: a str holding a mention form was added to a non-empty
\* Message.
C8_MarkupStringAdded ==
    /\ op = "__add__"
    /\ operand = StrArg(UserMarkup)
    /\ msg # <<>>
    /\ ret = msg \o <<text(UserMarkup)>>

\* The render of one segment as extract_content counts it: its __str__ for
\* the seven textual kinds, nothing for the others.
Opaque == {"embed", "component", "attachment", "sticker", "reference"}
RECURSIVE Rendered(_)
Rendered(m) ==
    IF m = <<>> THEN <<>>
    ELSE (IF Head(m).type \in Opaque THEN <<>> ELSE Segment_str(Head(m)))
             \o Rendered(Tail(m))

InsertAt(m, p, seg) == SubSeq(m, 1, p) \o <<seg>> \o SubSeq(m, p + 1, Len(m))
RemoveAt(m, p) == SubSeq(m, 1, p - 1) \o SubSeq(m, p + 1, Len(m))

\* C9: extract_content is the concatenation, in message order, of the renders
\* of the segments of the seven textual kinds; the opaque kinds contribute
\* nothing, so inserting or removing one anywhere leaves the result as it is.
C9_ExtractContent ==
    op = "extract_content" =>
        /\ content = Rendered(msg)
        /\ \A p \in 0..Len(msg) : \A seg \in SegUniverse :
               seg.type \in Opaque
                   => extract_content(InsertAt(msg, p, seg)) = content
        /\ \A p \in 1..Len(msg) :
               msg[p].type \in Opaque
                   => extract_content(RemoveAt(msg, p)) = content

\* Witness of C9: the content of a Message with an opaque segment between two
\* textual ones was extracted.
C9_ContentAroundEmbed ==
    /\ op = "extract_content"
    /\ msg = <<mention_everyone, embed(E1), mention_user(42)>>
    /\ content = <<"@", "e", "v", "e", "r", "y", "o", "n", "e",
                   "<", "@", "4", "2", ">">>

----
(* Claims about the round trip, checked under SpecRoundTrip. *)

\* C1 as stated: tokenizing the extracted content of a Message of textual
\* segments yields the Message again, segment by segment.
C1_RoundTrip ==
    op = "_construct" => ~raised /\ ret = msg

NoneOf(s, chars) == \A i \in 1..Len(s) : s[i] \notin chars

\* A segment that the tokenizer gives back from its own render.
Reparsed(seg) ==
    CASE seg.type = "text" ->
            /\ seg.data.text # <<>>
            /\ ~NextMatch(seg.data.text, 1).found
            /\ unescape(seg.data.text) = seg.data.text
      [] seg.type \in {"mention_user", "mention_role", "mention_channel"} ->
            TRUE
      [] seg.type = "custom_emoji" ->
            /\ seg.data.animated # None
            /\ NoneOf(seg.data.name, {"<", ">", ":"})
            /\ NoneOf(seg.data.id, {"<", ">", ":"})
      [] seg.type = "timestamp" -> seg.data.style # None
      [] OTHER -> FALSE

RoundTrippable(m) ==
    /\ \A i \in 1..Len(m) : Reparsed(m[i])
    /\ \A i \in 1..(Len(m) - 1) :
           ~(m[i].type = "text" /\ m[i + 1].type = "text")

\* C1 as amended: the round trip holds for a Message of mentions of a user,
\* role or channel, custom emoji with a boolean animated flag and a name
\* and id free of "<", ">" and ":", timestamps with a style, and text
\* segments that are not empty, hold no match of the pattern, are left as
\* they are by unescape and do not follow one another.
C1_RoundTripOfReparsedSegments ==
    (op = "_construct" /\ RoundTrippable(msg)) => ~raised /\ ret = msg

\* Witness of C1: a Message with a text, an animated emoji or a timestamp
\* and at least two segments came back from its content.
C1_TextAndMarkupCameBack ==
    /\ op = "_construct"
    /\ RoundTrippable(msg)
    /\ Len(msg) >= 2
    /\ \E i \in 1..Len(msg) : msg[i].type = "text"
    /\ \E i \in 1..Len(msg) : msg[i] = custom_emoji(N7, Id7, Some(TRUE))
    /\ ret = msg

----
(* Claims about the inbound adapter, checked under SpecGuild. *)

\* The group of the fixed order a segment kind belongs to.
Group(seg) ==
    CASE seg.type = "mention_everyone" -> 1
      [] seg.type = "attachment" -> 3
      [] seg.type = "embed" -> 4
      [] seg.type = "component" -> 5
      [] OTHER -> 2

\* The Message the claim describes for an event.
InboundMessage(e) ==
    (IF e.mention_everyone THEN <<mention_everyone>> ELSE <<>>)
    \o (IF e.content # <<>> THEN _construct(e.content).segs ELSE <<>>)
    \o [i \in 1..Len(e.attachments) |->
           [type |-> "attachment",
            data |-> [attachment |->
                          [filename |-> e.attachments[i].filename,
                           description |-> DescriptionOf(e.attachments[i])],
                      file |-> None]]]
    \o [i \in 1..Len(e.embeds) |->
           [type |-> "embed", data |-> [embed |-> e.embeds[i]]]]
    \o [i \in 1..Len(e.components) |-> component(e.components[i])]

\* C7: for every event from_guild_message builds a Message made of the
\* mention_everyone segment (iff the flag is set), the tokens of the content,
\* one attachment segment per attachment with no file, one embed segment per
\* embed and one component segment per component, in this order.
C7_InboundOrdering ==
    op = "from_guild_message" =>
        /\ ~raised
        /\ ret = InboundMessage(event)
        /\ \A i \in 1..Len(ret) : \A j \in i..Len(ret) :
               Group(ret[i]) <= Group(ret[j])

\* What holds of every Message from_guild_message does build.
C7_OrderOfBuiltMessages ==
    (op = "from_guild_message" /\ ~raised) =>
        /\ ret = InboundMessage(event)
        /\ \A i \in 1..Len(ret) : \A j \in i..Len(ret) :
               Group(ret[i]) <= Group(ret[j])

----
(* Claims about the slash-command form, checked under SpecTok. *)

\* The matches re.finditer finds in s from position from on, left to right.
RECURSIVE Matches(_, _)
Matches(s, from) ==
    LET m == NextMatch(s, from)
    IN  IF ~m.found THEN <<>> ELSE <<m>> \o Matches(s, m.end + 1)

IsSlash(m) == m.type = <<"/">>

\* The literal run s[b..e] as the claim has it emitted: one text segment
\* when it is not empty, nothing otherwise.
Run(s, b, e) ==
    IF b <= e THEN <<text(unescape(SubSeq(s, b, e)))>> ELSE <<>>

\* The segments the claim describes for s: for each match in turn the run
\* before it and then nothing for a "</...>" match (what the match alone
\* tokenizes to for any other), and the run after the last match.
RECURSIVE Described(_, _, _)
Described(s, ms, from) ==
    IF ms = <<>> THEN Run(s, from, Len(s))
    ELSE Run(s, from, Head(ms).start - 1)
             \o (IF IsSlash(Head(ms)) THEN <<>>
                 ELSE _construct(Head(ms).group).segs)
             \o Described(s, Tail(ms), Head(ms).end + 1)

HasSlashMatch(s) ==
    \E i \in 1..Len(Matches(s, 1)) : IsSlash(Matches(s, 1)[i])

\* C11: every "</...>" match is consumed with no segment emitted for it, the
\* text before and after it is emitted as non-empty text segments in
\* left-to-right order, and no empty text segment is emitted between
\* adjacent matches.
C11_SlashCommandDropped ==
    (op = "_construct" /\ HasSlashMatch(input)) =>
        /\ ret = Described(input, Matches(input, 1), 1)
        /\ \A i \in 1..Len(ret) :
               ret[i].type = "text" => ret[i].data.text # <<>>

\* What holds of every input whose tokenization runs to the end.
C11_SlashDroppedWhenScanCompletes ==
    (op = "_construct" /\ HasSlashMatch(input) /\ ~raised) =>
        /\ ret = Described(input, Matches(input, 1), 1)
        /\ \A i \in 1..Len(ret) :
               ret[i].type = "text" => ret[i].data.text # <<>>

====
